---- MODULE Spec2Model ----
(***************************************************************************)
(* Model of the horizontal-scaling controller                              *)
(* (src/python/task1/horizontal-scaling.py) and, in the second part, of    *)
(* the auto-scaling script (src/python/task2/autoscaling.py).              *)
(*                                                                         *)
(* The controller is one sequential thread; pc is its position in main().  *)
(* The cloud (EC2) and the load generator are the environment: every call  *)
(* into them draws its outcome (return value or exception) from a small    *)
(* set.  Time is the wall clock in whole seconds; it advances in the       *)
(* time.sleep calls of the code.  time.sleep(k) returns after at least k   *)
(* seconds: the clock reading after the loop's sleep is an input, drawn    *)
(* from Ticks.                                                             *)
(***************************************************************************)
EXTENDS Integers, Sequences, FiniteSets, TLC

VARIABLES
    pc,                 \* position of the controller in main()
    exc,                \* TRUE while an exception propagates out of main's try block
    now,                \* datetime.now(timezone.utc), in seconds
    init_retries,       \* ConnectionError retries made by initialize_test
    last_launch_time,   \* main: last_launch_time (NoTime before line 301)
    current_rps,        \* main: current_rps
    time_diff,          \* main: time_diff
    all_instance_ids,   \* main: all_instance_ids
    sg_local,           \* 'sg' in locals()
    new_ws,             \* main: new_ws (instance id, 0 before the first attempt)
    new_ws_dns,         \* main: new_ws_dns
    retries,            \* wait_for_server_health: retries
    probes,             \* number of requests.get probes issued by the running call
    last_probe,         \* outcome of the most recent probe
    health_ret,         \* return value of the last wait_for_server_health call
    launched,           \* EC2: number of instances launched so far (ids 1..launched)
    terminated,         \* EC2: ids of terminated instances
    terminate_calls,    \* EC2: the InstanceIds of every terminate request, in order
    sg_cloud,           \* EC2: state of the security group
    probed_ok,          \* ids of workers whose health probe returned 200
    add_requests,       \* load generator: ids submitted to /test/horizontal/add
    attempt_outcome,    \* terminal outcome of the last scale-out attempt
    last_attempt_time,  \* clock reading at which the last attempt was initiated
    complete,           \* TRUE once is_test_complete has returned True
    log_text,           \* get_rps: the report text being parsed
    session_start,      \* clock reading at which initialize_test returned
    as_pc,              \* autoscaling.py: position in main()
    as_step,            \* autoscaling.py: next provisioning step of main()
    as_exists,          \* AWS: resources of the auto-scaling set-up that exist
    as_created,         \* AWS: the resources created, in order of creation
    as_deleted,         \* AWS: the resources deleted, in order of deletion
    as_dstep,           \* destroy_resources: next teardown step
    as_attempted,       \* destroy_resources: teardown steps attempted, in order
    destroy_calls,      \* number of calls of destroy_resources
    as_error,           \* TRUE once the except clause at line 434 has run
    as_events,          \* milestones of the test orchestration, in order
    as_log,             \* is_test_complete: content of the saved log file
    as_fetch            \* is_test_complete: outcome of the last log fetch

vars == << pc, exc, now, init_retries, last_launch_time, current_rps, time_diff,
           all_instance_ids, sg_local, new_ws, new_ws_dns, retries, probes,
           last_probe, health_ret, launched, terminated, terminate_calls,
           sg_cloud, probed_ok, add_requests, attempt_outcome,
           last_attempt_time, complete, log_text, session_start,
           as_pc, as_step, as_exists, as_created, as_deleted, as_dstep,
           as_attempted, destroy_calls, as_error, as_events, as_log,
           as_fetch >>

as_vars == << as_pc, as_step, as_exists, as_created, as_deleted, as_dstep,
              as_attempted, destroy_calls, as_error, as_events, as_log,
           as_fetch >>

----------------------------------------------------------------------------
(* Bounds *)

MaxTime == 202          \* the clock is not advanced past this inside the loop
MaxPhase == 2           \* clock readings sampled after each multiple of the cooldown
MaxInstances == 4       \* EC2 capacity: create_instances raises beyond it
MaxInitRetries == 1     \* ConnectionErrors initialize_test is made to see
MaxReportLen == 3       \* section headers in a report parsed by get_rps alone
MaxPollLen == 1         \* section headers in a report fetched by the loop

(* Program constants *)

RPS_LOW_THRESHOLD == 50
COOLDOWN_SECONDS == 100
HEALTH_RETRIES == 40
HEALTH_SLEEP == 2
POLL_SLEEP == 1
SG_WAIT == 60

NoTime == -1

(* the clock readings at which an iteration of the loop can start *)
Ticks == { t \in 0..MaxTime : t % COOLDOWN_SECONDS <= MaxPhase }

----------------------------------------------------------------------------
(* The report text of GET /log?name=<id>, as its sequence of section       *)
(* header lines.                                                           *)

Lines == { "[Test]", "[Current rps=10]", "[Current rps=50]",
           "[Current rps=80]", "[Test finished]" }

RECURSIVE SeqsUpTo(_, _)
SeqsUpTo(S, n) ==
    IF n = 0 THEN { << >> }
    ELSE LET shorter == SeqsUpTo(S, n - 1)
         IN  shorter \cup { Append(s, x) : s \in { t \in shorter : Len(t) = n - 1 }, x \in S }

Reports == SeqsUpTo(Lines, MaxReportLen)

PolledReports == SeqsUpTo(Lines, MaxPollLen)

(* 'Current rps=' in sec *)
HasRpsField(line) ==
    line \in { "[Current rps=10]", "[Current rps=50]", "[Current rps=80]" }

(* float(sec[len('Current rps='):]) *)
FloatOfField(line) ==
    CASE line = "[Current rps=10]"   -> 10
      [] line = "[Current rps=50]"   -> 50
      [] line = "[Current rps=80]"   -> 80
      [] OTHER -> 0

(* config.sections() with strict=False: a repeated section header is       *)
(* merged into the section of its first occurrence, so the list holds each *)
(* name once, in order of first appearance.                                *)
RECURSIVE Sections(_)
Sections(text) ==
    IF text = << >> THEN << >>
    ELSE LET front == Sections(SubSeq(text, 1, Len(text) - 1))
             last  == text[Len(text)]
         IN  IF \E i \in 1..Len(front) : front[i] = last
             THEN front
             ELSE Append(front, last)

Reverse(s) == [ i \in 1..Len(s) |-> s[Len(s) + 1 - i] ]

RECURSIVE FirstRps(_)
FirstRps(secs) ==
    IF secs = << >> THEN 0
    ELSE IF HasRpsField(Head(secs)) THEN FloatOfField(Head(secs))
    ELSE FirstRps(Tail(secs))

get_rps(text) == FirstRps(Reverse(Sections(text)))

(* '[Test finished]' in log_text *)
TestFinished(text) == \E i \in 1..Len(text) : text[i] = "[Test finished]"

----------------------------------------------------------------------------
(* Outcomes of the calls into the environment *)

CreateOutcomes == { "launch_error", "wait_error", "ok" }
CallOutcomes   == { "raise", "ok" }
FetchOutcomes  == { "raise", "ok" }
InitOutcomes   == { "conn_error", "non200", "other_error", "ok_without_id", "ok" }
ReloadOutcomes == { "raise", "no_dns", "dns" }
ProbeOutcomes  == { "200", "non200", "transport_error", "other_exception" }
AddOutcomes    == { "200", "non200", "raise" }
DeleteOutcomes == { "raise", "ok" }

Range(s) == { s[i] : i \in 1..Len(s) }

(* autoscaling.py is not running *)
AutoScalingIdle ==
    /\ as_pc = "idle"
    /\ as_step = 1
    /\ as_exists = {}
    /\ as_created = << >>
    /\ as_deleted = << >>
    /\ as_dstep = 1
    /\ as_attempted = << >>
    /\ destroy_calls = 0
    /\ as_error = FALSE
    /\ as_events = << >>
    /\ as_log = << >>
    /\ as_fetch = "none"

Init ==
    /\ AutoScalingIdle
    /\ pc = "create_sg"
    /\ exc = FALSE
    /\ now = 0
    /\ init_retries = 0
    /\ last_launch_time = NoTime
    /\ current_rps = 0
    /\ time_diff = 0
    /\ all_instance_ids = << >>
    /\ sg_local = FALSE
    /\ new_ws = 0
    /\ new_ws_dns = ""
    /\ retries = 0
    /\ probes = 0
    /\ last_probe = "none"
    /\ health_ret = "none"
    /\ launched = 0
    /\ terminated = {}
    /\ terminate_calls = << >>
    /\ sg_cloud = "none"
    /\ probed_ok = {}
    /\ add_requests = {}
    /\ attempt_outcome = "none"
    /\ last_attempt_time = NoTime
    /\ complete = FALSE
    /\ log_text = << >>
    /\ session_start = NoTime

(* create_instance: create_instances launches one instance (or raises, as  *)
(* it does at the account's capacity limit); wait_until_running and reload *)
(* may raise after the launch; the instance is returned only on "ok".      *)
create_instance(o) ==
    /\ o \in CreateOutcomes
    /\ (o # "launch_error") => (launched < MaxInstances)
    /\ launched' = IF o = "launch_error" THEN launched ELSE launched + 1

health_vars  == << retries, probes, last_probe, health_ret >>
cloud_vars   == << launched, terminated, terminate_calls, sg_cloud >>
attempt_vars == << new_ws, new_ws_dns, probed_ok, add_requests, attempt_outcome,
                  last_attempt_time >>
loop_vars    == << last_launch_time, current_rps, time_diff >>

RaiseToFinally_Swallowed ==
    /\ pc' = "finally"
    /\ exc' = exc

(* an exception leaves the try block: control goes to the finally block *)
RaiseToFinally ==
    /\ pc' = "finally"
    /\ exc' = TRUE

(* lines 257-261 *)
CreateSecurityGroup ==
    /\ pc = "create_sg"
    /\ \E o \in CallOutcomes :
         IF o = "ok"
         THEN /\ sg_cloud' = "created"
              /\ sg_local' = TRUE
              /\ pc' = "authorize"
              /\ exc' = exc
         ELSE /\ RaiseToFinally
              /\ UNCHANGED << sg_cloud, sg_local >>
    /\ UNCHANGED << now, init_retries, loop_vars, all_instance_ids, attempt_vars,
                    health_vars, launched, terminated, terminate_calls,
                    complete, log_text, session_start, as_vars >>

(* lines 264-272 *)
AuthorizeIngress ==
    /\ pc = "authorize"
    /\ \E o \in CallOutcomes :
         IF o = "ok"
         THEN pc' = "create_lg" /\ exc' = exc
         ELSE RaiseToFinally
    /\ UNCHANGED << now, init_retries, loop_vars, all_instance_ids, sg_local,
                    attempt_vars, health_vars, cloud_vars, complete, log_text, session_start, as_vars >>

Track_Overwrites(ids, id) == << id >>

(* lines 281, 287 and 322: all_instance_ids.append(...) *)
Track(ids, id) == Append(ids, id)

(* lines 280-283 and 286-289: launch an initial instance and track it *)
LaunchInitial(at, next) ==
    /\ pc = at
    /\ \E o \in CreateOutcomes :
         /\ create_instance(o)
         /\ IF o = "ok"
            THEN /\ all_instance_ids' = Track(all_instance_ids, launched')
                 /\ pc' = next
                 /\ exc' = exc
            ELSE /\ RaiseToFinally
                 /\ UNCHANGED all_instance_ids
    /\ UNCHANGED << now, init_retries, loop_vars, sg_local, attempt_vars,
                    health_vars, terminated, terminate_calls, sg_cloud,
                    complete, log_text, session_start, as_vars >>

CreateLoadGenerator == LaunchInitial("create_lg", "create_ws")

CreateFirstWebService == LaunchInitial("create_ws", "initialize_test")

(* line 297, initialize_test (lines 84-97) and get_test_id (lines 115-119). *)
(* "conn_error": requests.get raises ConnectionError, caught at line 91;   *)
(* "other_error": it raises another exception (ChunkedEncodingError,       *)
(* InvalidURL, ...), which line 91 does not catch; "ok_without_id": status *)
(* 200 with a body that TEST_NAME_REGEX does not match, so findall(...)[0] *)
(* raises IndexError at line 119.                                          *)
InitializeTest ==
    /\ pc = "initialize_test"
    /\ \E o \in InitOutcomes :
         CASE o = "conn_error" ->
                /\ init_retries < MaxInitRetries
                /\ init_retries' = init_retries + 1
                /\ now' = now + POLL_SLEEP
                /\ UNCHANGED << pc, exc, session_start, as_vars >>
           [] o = "non200" ->
                UNCHANGED << pc, exc, now, init_retries, session_start, as_vars >>
           [] o \in { "other_error", "ok_without_id" } ->
                /\ RaiseToFinally
                /\ UNCHANGED << now, init_retries, session_start, as_vars >>
           [] o = "ok" ->
                /\ pc' = "set_timer"
                /\ session_start' = now
                /\ UNCHANGED << exc, now, init_retries >>
    /\ UNCHANGED << loop_vars, all_instance_ids, sg_local, attempt_vars,
                    health_vars, cloud_vars, complete, log_text, as_vars >>

InitialTimer_AllowsFirstLaunch(t) == t - COOLDOWN_SECONDS - 1

(* line 301: last_launch_time = datetime.now(timezone.utc) *)
InitialTimer(t) == t

(* line 301 *)
SetTimer ==
    /\ pc = "set_timer"
    /\ last_launch_time' = InitialTimer(now)
    /\ pc' = "is_test_complete"
    /\ UNCHANGED << exc, now, init_retries, current_rps, time_diff,
                    all_instance_ids, sg_local, attempt_vars, health_vars,
                    cloud_vars, complete, log_text, session_start, as_vars >>

----------------------------------------------------------------------------
(* The monitoring loop, lines 304-351 *)

LoopContinues_Always(finished) == TRUE

(* line 304: while not is_test_complete(...) *)
LoopContinues(finished) == ~finished

(* line 304, is_test_complete (lines 122-138): the while condition *)
IsTestComplete ==
    /\ pc = "is_test_complete"
    /\ \E o \in FetchOutcomes :
         IF o = "ok"
         THEN \E text \in PolledReports :
                /\ complete' = TestFinished(text)
                /\ pc' = IF LoopContinues(TestFinished(text))
                         THEN "get_rps" ELSE "finally"
                /\ exc' = exc
         ELSE /\ RaiseToFinally
              /\ UNCHANGED complete
    /\ UNCHANGED << now, init_retries, loop_vars, all_instance_ids, sg_local,
                    attempt_vars, health_vars, cloud_vars, log_text, session_start, as_vars >>

(* lines 307-311: fetch and parse the metric, read the clock *)
FetchMetrics ==
    /\ pc = "get_rps"
    /\ \E o \in FetchOutcomes :
         IF o = "ok"
         THEN \E text \in PolledReports :
                /\ current_rps' = get_rps(text)
                /\ time_diff' = now - last_launch_time
                /\ pc' = "check"
                /\ exc' = exc
         ELSE /\ RaiseToFinally
              /\ UNCHANGED << current_rps, time_diff >>
    /\ UNCHANGED << now, init_retries, last_launch_time, all_instance_ids,
                    sg_local, attempt_vars, health_vars, cloud_vars, complete,
                    log_text, session_start, as_vars >>

ShouldScaleOut_CooldownInclusive(rps, diff) ==
    rps < RPS_LOW_THRESHOLD /\ diff >= COOLDOWN_SECONDS

(* line 315 *)
ShouldScaleOut(rps, diff) == rps < RPS_LOW_THRESHOLD /\ diff > COOLDOWN_SECONDS

(* lines 315-316 *)
ScalingCheck ==
    /\ pc = "check"
    /\ IF ShouldScaleOut(current_rps, time_diff)
       THEN /\ pc' = "create_new_ws"
            /\ last_attempt_time' = now
            /\ attempt_outcome' = "in_flight"
       ELSE /\ pc' = "sleep"
            /\ UNCHANGED << last_attempt_time, attempt_outcome >>
    /\ UNCHANGED << exc, now, init_retries, loop_vars, all_instance_ids,
                    sg_local, new_ws, new_ws_dns, probed_ok, add_requests,
                    health_vars, cloud_vars, complete, log_text, session_start, as_vars >>

AttemptException_RetriesAtOnce ==
    /\ attempt_outcome' = "in_flight"
    /\ pc' = "create_new_ws"
    /\ exc' = exc

AttemptException_Propagates ==
    /\ attempt_outcome' = "exception"
    /\ RaiseToFinally

(* lines 347-348: the except clause of the attempt catches the exception *)
AttemptException ==
    /\ attempt_outcome' = "exception"
    /\ pc' = "sleep"
    /\ exc' = exc

(* lines 321-322 *)
ProvisionWorker ==
    /\ pc = "create_new_ws"
    /\ \E o \in CreateOutcomes :
         /\ create_instance(o)
         /\ IF o = "ok"
            THEN /\ new_ws' = launched'
                 /\ all_instance_ids' = Track(all_instance_ids, launched')
                 /\ pc' = "reload"
                 /\ UNCHANGED << exc, attempt_outcome >>
            ELSE /\ AttemptException
                 /\ UNCHANGED << new_ws, all_instance_ids >>
    /\ UNCHANGED << now, init_retries, loop_vars, sg_local, new_ws_dns,
                    probed_ok, add_requests, last_attempt_time, health_vars,
                    terminated, terminate_calls, sg_cloud, complete, log_text, session_start, as_vars >>

(* lines 325-331 and the call at line 333, which enters                    *)
(* wait_for_server_health with retries = 0 (line 212)                      *)
ReadAddress ==
    /\ pc = "reload"
    /\ \E o \in ReloadOutcomes :
         CASE o = "raise" ->
                /\ AttemptException
                /\ UNCHANGED new_ws_dns
           [] o = "no_dns" ->
                /\ new_ws_dns' = ""
                /\ attempt_outcome' = "no_dns"
                /\ pc' = "is_test_complete"
                /\ UNCHANGED exc
           [] o = "dns" ->
                /\ new_ws_dns' = "ws.dns"
                /\ pc' = "health"
                /\ UNCHANGED << exc, attempt_outcome >>
    /\ retries' = 0
    /\ probes' = 0
    /\ last_probe' = "none"
    /\ health_ret' = "none"
    /\ UNCHANGED << now, init_retries, loop_vars, all_instance_ids,
                    sg_local, new_ws, probed_ok, add_requests,
                    last_attempt_time, cloud_vars, complete, log_text, session_start, as_vars >>

HealthBudgetLeft_OffByOne(r) == r <= HEALTH_RETRIES

(* line 214: the while condition of wait_for_server_health *)
HealthBudgetLeft(r) == r < HEALTH_RETRIES

ProbeSucceeded_AnyResponse(o) == o \in { "200", "non200" }

(* line 217: if resp.status_code == 200 *)
ProbeSucceeded(o) == o = "200"

(* wait_for_server_health, lines 214-224: one pass of the while loop *)
HealthProbe ==
    /\ pc = "health"
    /\ HealthBudgetLeft(retries)
    /\ \E o \in ProbeOutcomes :
         /\ probes' = probes + 1
         /\ last_probe' = o
         /\ CASE ProbeSucceeded(o) ->
                   /\ health_ret' = "True"
                   /\ probed_ok' = probed_ok \cup { new_ws }
                   /\ pc' = "health_return"
                   /\ UNCHANGED << exc, now, retries, attempt_outcome >>
              [] ~ProbeSucceeded(o) /\ o # "other_exception" ->
                   /\ now + HEALTH_SLEEP <= MaxTime
                   /\ now' = now + HEALTH_SLEEP
                   /\ retries' = retries + 1
                   /\ UNCHANGED << pc, exc, health_ret, probed_ok,
                                   attempt_outcome >>
              [] ~ProbeSucceeded(o) /\ o = "other_exception" ->
                   /\ AttemptException
                   /\ UNCHANGED << now, retries, health_ret, probed_ok >>
    /\ UNCHANGED << init_retries, loop_vars, all_instance_ids, sg_local,
                    new_ws, new_ws_dns, add_requests, last_attempt_time,
                    cloud_vars, complete, log_text, session_start, as_vars >>

(* wait_for_server_health, lines 214 and 226-227: the budget is used up *)
HealthExhausted ==
    /\ pc = "health"
    /\ ~HealthBudgetLeft(retries)
    /\ health_ret' = "False"
    /\ pc' = "health_return"
    /\ UNCHANGED << exc, now, init_retries, loop_vars, all_instance_ids,
                    sg_local, attempt_vars, retries, probes, last_probe,
                    cloud_vars, complete, log_text, session_start, as_vars >>

Healthy_Ignored(ret) == TRUE

(* line 333: if wait_for_server_health(new_ws_dns) *)
Healthy(ret) == ret = "True"

(* lines 333 and 344-345: main branches on the returned value *)
HealthReturn ==
    /\ pc = "health_return"
    /\ IF Healthy(health_ret)
       THEN /\ pc' = "register"
            /\ UNCHANGED attempt_outcome
       ELSE /\ pc' = "sleep"
            /\ attempt_outcome' = "unhealthy"
    /\ UNCHANGED << exc, now, init_retries, loop_vars, all_instance_ids,
                    sg_local, new_ws, new_ws_dns, probed_ok, add_requests,
                    last_attempt_time, health_vars, cloud_vars, complete,
                    log_text, session_start, as_vars >>

RegistrationAccepted_AnyStatus(status) == TRUE

RegistrationAccepted_Never(status) == FALSE

RegistrationAccepted_AnyResponse(status) == status \in { "200", "non200" }

(* line 338: if res.status_code == 200 *)
RegistrationAccepted(status) == status = "200"

(* lines 335-343 *)
RegisterWorker ==
    /\ pc = "register"
    /\ \E o \in AddOutcomes :
         /\ add_requests' = add_requests \cup { new_ws }
         /\ IF o = "raise"
            THEN /\ AttemptException
                 /\ UNCHANGED last_launch_time
            ELSE /\ last_launch_time' =
                      IF RegistrationAccepted(o) THEN now ELSE last_launch_time
                 /\ attempt_outcome' =
                      IF o = "200" THEN "registered" ELSE "rejected"
                 /\ pc' = "sleep"
                 /\ UNCHANGED exc
    /\ UNCHANGED << now, init_retries, current_rps, time_diff,
                    all_instance_ids, sg_local, new_ws, new_ws_dns, probed_ok,
                    last_attempt_time, health_vars, cloud_vars, complete,
                    log_text, session_start, as_vars >>

(* line 351 *)
PollSleep ==
    /\ pc = "sleep"
    /\ \E t \in Ticks :
         /\ t >= now + POLL_SLEEP
         /\ now' = t
    /\ pc' = "is_test_complete"
    /\ UNCHANGED << exc, init_retries, loop_vars, all_instance_ids, sg_local,
                    attempt_vars, health_vars, cloud_vars, complete, log_text, session_start, as_vars >>

----------------------------------------------------------------------------
(* The finally block, lines 355-373 *)

TerminateTargets_InitialOnly(ids) ==
    SubSeq(ids, 1, IF Len(ids) < 2 THEN Len(ids) ELSE 2)

(* line 361: filter(InstanceIds=all_instance_ids) *)
TerminateTargets(ids) == ids

(* lines 360-362.  An exception of the terminate call leaves main.         *)
TerminateInstances ==
    /\ pc = "finally"
    /\ IF all_instance_ids # << >>
       THEN \E o \in CallOutcomes :
              /\ terminate_calls' =
                   Append(terminate_calls, TerminateTargets(all_instance_ids))
              /\ IF o = "ok"
                 THEN /\ terminated' = terminated
                                        \cup Range(TerminateTargets(all_instance_ids))
                      /\ pc' = "finally_sg"
                      /\ exc' = exc
                 ELSE /\ pc' = "done"
                      /\ exc' = TRUE
                      /\ UNCHANGED terminated
       ELSE /\ pc' = "finally_sg"
            /\ UNCHANGED << exc, terminated, terminate_calls >>
    /\ UNCHANGED << now, init_retries, loop_vars, all_instance_ids, sg_local,
                    attempt_vars, health_vars, launched, sg_cloud, complete,
                    log_text, session_start, as_vars >>

(* lines 365-373 *)
DeleteSecurityGroup ==
    /\ pc = "finally_sg"
    /\ IF sg_local
       THEN /\ now' = now + SG_WAIT
            /\ \E o \in DeleteOutcomes :
                 sg_cloud' = IF o = "ok" THEN "deleted" ELSE sg_cloud
       ELSE UNCHANGED << now, sg_cloud >>
    /\ pc' = "done"
    /\ UNCHANGED << exc, init_retries, loop_vars, all_instance_ids, sg_local,
                    attempt_vars, health_vars, launched, terminated,
                    terminate_calls, complete, log_text, session_start, as_vars >>

Next ==
    \/ CreateSecurityGroup
    \/ AuthorizeIngress
    \/ CreateLoadGenerator
    \/ CreateFirstWebService
    \/ InitializeTest
    \/ SetTimer
    \/ IsTestComplete
    \/ FetchMetrics
    \/ ScalingCheck
    \/ ProvisionWorker
    \/ ReadAddress
    \/ HealthProbe
    \/ HealthExhausted
    \/ HealthReturn
    \/ RegisterWorker
    \/ PollSleep
    \/ TerminateInstances
    \/ DeleteSecurityGroup

Spec == Init /\ [][Next]_vars

(* get_rps (lines 174-184) applied to one fetched report text *)
InitGetRps ==
    /\ AutoScalingIdle
    /\ pc = "get_rps_call"
    /\ log_text \in Reports
    /\ exc = FALSE
    /\ now = 0
    /\ init_retries = 0
    /\ last_launch_time = NoTime
    /\ current_rps = 0
    /\ time_diff = 0
    /\ all_instance_ids = << >>
    /\ sg_local = FALSE
    /\ new_ws = 0
    /\ new_ws_dns = ""
    /\ retries = 0
    /\ probes = 0
    /\ last_probe = "none"
    /\ health_ret = "none"
    /\ launched = 0
    /\ terminated = {}
    /\ terminate_calls = << >>
    /\ sg_cloud = "none"
    /\ probed_ok = {}
    /\ add_requests = {}
    /\ attempt_outcome = "none"
    /\ last_attempt_time = NoTime
    /\ complete = FALSE
    /\ session_start = NoTime

ParseReport ==
    /\ pc = "get_rps_call"
    /\ current_rps' = get_rps(log_text)
    /\ pc' = "get_rps_return"
    /\ UNCHANGED << exc, now, init_retries, last_launch_time, time_diff,
                    all_instance_ids, sg_local, attempt_vars, health_vars,
                    cloud_vars, complete, log_text, session_start, as_vars >>

SpecGetRps == InitGetRps /\ [][ParseReport]_vars

----------------------------------------------------------------------------
(* The auto-scaling script, src/python/task2/autoscaling.py                *)

controller_vars ==
    << pc, exc, now, init_retries, last_launch_time, current_rps, time_diff,
       all_instance_ids, sg_local, new_ws, new_ws_dns, retries, probes,
       last_probe, health_ret, launched, terminated, terminate_calls,
       sg_cloud, probed_ok, add_requests, attempt_outcome,
       last_attempt_time, complete, log_text, session_start >>

(* the calls of main() that set the fleet up, lines 250-404, in order:     *)
(* get_default_vpc (250), get_subnets (251), create_security_group and     *)
(* ingress rules for the load generator (255-264) and for the web tier     *)
(* (268-273), create_instance (277), create_launch_template (284),         *)
(* create_target_group (298), create_load_balancer and its waiter          *)
(* (312-325), create_listener (329), create_auto_scaling_group (339),      *)
(* put_scaling_policy twice (358-376), put_metric_alarm twice (380-403)    *)
ProvisionSteps ==
    << "vpc", "subnets", "sg_lg", "ingress_lg", "sg_web", "ingress_web", "lg",
       "lt", "tg", "lb", "listener", "asg", "policies", "alarms" >>

(* the steps that create a resource *)
Resources ==
    { "sg_lg", "sg_web", "lg", "lt", "tg", "lb", "listener", "asg", "policies",
      "alarms" }

(* steps that wait on the resource after creating it (lines 67-71 and      *)
(* 324-325): the wait may raise when the resource already exists           *)
WaitingSteps == { "lg", "lb" }

ProvisionOutcomes == { "ok", "raise", "raise_after_create" }

InitAutoScaling ==
    /\ pc = "idle"
    /\ exc = FALSE
    /\ now = 0
    /\ init_retries = 0
    /\ last_launch_time = NoTime
    /\ current_rps = 0
    /\ time_diff = 0
    /\ all_instance_ids = << >>
    /\ sg_local = FALSE
    /\ new_ws = 0
    /\ new_ws_dns = ""
    /\ retries = 0
    /\ probes = 0
    /\ last_probe = "none"
    /\ health_ret = "none"
    /\ launched = 0
    /\ terminated = {}
    /\ terminate_calls = << >>
    /\ sg_cloud = "none"
    /\ probed_ok = {}
    /\ add_requests = {}
    /\ attempt_outcome = "none"
    /\ last_attempt_time = NoTime
    /\ complete = FALSE
    /\ log_text = << >>
    /\ session_start = NoTime
    /\ as_pc = "provision"
    /\ as_step = 1
    /\ as_exists = {}
    /\ as_created = << >>
    /\ as_deleted = << >>
    /\ as_dstep = 1
    /\ as_attempted = << >>
    /\ destroy_calls = 0
    /\ as_error = FALSE
    /\ as_events = << >>
    /\ as_log = << >>
    /\ as_fetch = "none"

OnException_NoCleanup ==
    /\ as_error' = TRUE
    /\ as_pc' = "done"

(* lines 434-436: except Exception: print, then destroy_resources() *)
OnException ==
    /\ as_error' = TRUE
    /\ as_pc' = "destroy"

(* one set-up call of main(), lines 250-404 *)
Provision ==
    /\ as_pc = "provision"
    /\ LET step == ProvisionSteps[as_step]
       IN  \E o \in ProvisionOutcomes :
             /\ (o = "raise_after_create") => (step \in WaitingSteps)
             /\ IF o # "raise" /\ step \in Resources
                THEN /\ as_exists' = as_exists \cup { step }
                     /\ as_created' = Append(as_created, step)
                ELSE UNCHANGED << as_exists, as_created >>
             /\ IF o = "ok"
                THEN /\ as_step' = as_step + 1
                     /\ as_pc' = IF as_step = Len(ProvisionSteps)
                                 THEN "warmup" ELSE "provision"
                     /\ UNCHANGED as_error
                ELSE /\ OnException
                     /\ UNCHANGED as_step
    /\ UNCHANGED << controller_vars, as_fetch, as_deleted, as_dstep, as_attempted,
                    destroy_calls, as_events, as_log >>

(* initialize_warmup (lines 115-126) and initialize_test (lines 89-100):   *)
(* a ConnectionError and a non-200 status are retried inside the function; *)
(* it returns on a 200 response that names the log, and raises otherwise   *)
StartOutcomes == { "retry", "raise", "ok" }

(* lines 407-409: sleep, then start the warm-up test *)
StartWarmup ==
    /\ as_pc = "warmup"
    /\ \E o \in StartOutcomes :
         CASE o = "retry" ->
                UNCHANGED << as_pc, as_error, as_events >>
           [] o = "raise" ->
                /\ OnException
                /\ UNCHANGED as_events
           [] o = "ok" ->
                /\ as_pc' = "warmup_poll"
                /\ as_events' = Append(as_events, "warmup_started")
                /\ UNCHANGED as_error
    /\ UNCHANGED << controller_vars, as_fetch, as_step, as_exists, as_created,
                    as_deleted, as_dstep, as_attempted, destroy_calls, as_log >>

(* is_test_complete, lines 229-242: the log file is opened for writing,    *)
(* (and so emptied), the fetched text is written to it unless the fetch    *)
(* raised, and the file is read back                                       *)
SavedLog_KeepsOld(o, text) == IF o = "ok" THEN text ELSE as_log

(* lines 231-242 *)
SavedLog(o, text) == IF o = "ok" THEN text ELSE << >>

(* lines 410-411 and 429-430: one pass of a polling loop; opening the log  *)
(* file (lines 231 and 240) is outside the try and may raise               *)
Poll(at, next, event) ==
    /\ as_pc = at
    /\ \E file \in CallOutcomes, o \in FetchOutcomes, text \in PolledReports :
         IF file = "raise"
         THEN /\ OnException
              /\ as_fetch' = "none"
              /\ UNCHANGED << as_log, as_events >>
         ELSE /\ as_fetch' = o
              /\ as_log' = SavedLog(o, text)
              /\ IF TestFinished(as_log')
                 THEN /\ as_pc' = next
                      /\ as_events' = Append(as_events, event)
                 ELSE UNCHANGED << as_pc, as_events >>
              /\ UNCHANGED as_error
    /\ UNCHANGED << controller_vars, as_step, as_exists, as_created,
                    as_deleted, as_dstep, as_attempted, destroy_calls >>

PollWarmup_SkipsReset == Poll("warmup_poll", "start_test", "warmup_complete")

(* lines 410-411: while not is_test_complete(lg_dns, warmup_log_name) *)
PollWarmup == Poll("warmup_poll", "reset", "warmup_complete")

(* lines 418-423: set the desired capacity of the group back to 1 *)
ResetCapacity ==
    /\ as_pc = "reset"
    /\ \E o \in CallOutcomes :
         IF o = "ok"
         THEN /\ as_pc' = "start_test"
              /\ as_events' = Append(as_events, "capacity_reset")
              /\ UNCHANGED as_error
         ELSE /\ OnException
              /\ UNCHANGED as_events
    /\ UNCHANGED << controller_vars, as_fetch, as_step, as_exists, as_created,
                    as_deleted, as_dstep, as_attempted, destroy_calls, as_log >>

(* lines 427-428 *)
StartTest ==
    /\ as_pc = "start_test"
    /\ \E o \in StartOutcomes :
         CASE o = "retry" ->
                UNCHANGED << as_pc, as_error, as_events >>
           [] o = "raise" ->
                /\ OnException
                /\ UNCHANGED as_events
           [] o = "ok" ->
                /\ as_pc' = "test_poll"
                /\ as_events' = Append(as_events, "test_started")
                /\ UNCHANGED as_error
    /\ UNCHANGED << controller_vars, as_fetch, as_step, as_exists, as_created,
                    as_deleted, as_dstep, as_attempted, destroy_calls, as_log >>

(* lines 429-432: the loop ends and line 432 calls destroy_resources *)
PollTest == Poll("test_poll", "destroy", "test_complete")

(* destroy_resources, line 137 *)
DestroyEnter ==
    /\ as_pc = "destroy"
    /\ destroy_calls' = destroy_calls + 1
    /\ as_dstep' = 1
    /\ as_pc' = "destroying"
    /\ UNCHANGED << controller_vars, as_fetch, as_step, as_exists, as_created,
                    as_deleted, as_attempted, as_error, as_events, as_log >>

(* the teardown steps of destroy_resources in the order of the code: the   *)
(* group (140-159), the launch template (162-166), the load balancer       *)
(* (170-183), the target group (186-193), the instances tagged             *)
(* Project=vm-scaling (196-215), the alarms (218-222)                      *)
DestroySteps == << "asg", "lt", "lb", "tg", "lg", "alarms" >>

(* what goes with a deleted resource: the policies with the group, the     *)
(* listener with the load balancer                                         *)
DeletedWith(r) ==
    CASE r = "asg" -> { "asg", "policies" }
      [] r = "lb"  -> { "lb", "listener" }
      [] OTHER     -> { r }

TeardownContinues_OnlyOnSuccess(o) == o = "ok"

(* lines 158, 165, 182, 192, 214 and 221: each step is a try of its own    *)
(* with an except Exception clause that prints, so the next step follows   *)
(* whatever the outcome of the step                                        *)
TeardownContinues(o) == o \in { "ok", "raise" }

(* one teardown step of destroy_resources; its exception is caught by the  *)
(* except clause of the step.  A delete call succeeds only on a resource   *)
(* that exists; the instance and alarm steps succeed with nothing to do.   *)
DestroyStep ==
    /\ as_pc = "destroying"
    /\ LET r == DestroySteps[as_dstep]
       IN  /\ as_attempted' = Append(as_attempted, r)
           /\ \E o \in CallOutcomes :
                /\ (o = "ok" /\ r \notin { "lg", "alarms" }) => (r \in as_exists)
                /\ IF o = "ok" /\ r \in as_exists
                   THEN /\ as_exists' = as_exists \ DeletedWith(r)
                        /\ as_deleted' = Append(as_deleted, r)
                   ELSE UNCHANGED << as_exists, as_deleted >>
                /\ IF as_dstep = Len(DestroySteps) \/ ~TeardownContinues(o)
                   THEN /\ as_pc' = "done"
                        /\ UNCHANGED as_dstep
                   ELSE /\ as_dstep' = as_dstep + 1
                        /\ UNCHANGED as_pc
    /\ UNCHANGED << controller_vars, as_fetch, as_step, as_created, destroy_calls,
                    as_error, as_events, as_log >>

NextAutoScaling ==
    \/ Provision
    \/ StartWarmup
    \/ PollWarmup
    \/ ResetCapacity
    \/ StartTest
    \/ PollTest
    \/ DestroyEnter
    \/ DestroyStep

SpecAutoScaling == InitAutoScaling /\ [][NextAutoScaling]_vars

TypeOK ==
    /\ now \in 0..(MaxTime + SG_WAIT)
    /\ launched \in 0..MaxInstances
    /\ retries \in 0..HEALTH_RETRIES
    /\ Range(all_instance_ids) \subseteq 1..launched

----------------------------------------------------------------------------
(* Properties *)

LoopPcs == { "is_test_complete", "get_rps", "check", "create_new_ws", "reload",
             "health", "health_return", "register", "sleep" }
AttemptPcs == { "create_new_ws", "reload", "health", "health_return", "register" }
TeardownPcs == { "finally", "finally_sg", "done" }

(* C1: in the monitoring loop a provisioning request for a new worker is   *)
(* initiated in an iteration only if that iteration's rps sample is below  *)
(* the threshold (50) and the time elapsed since last_launch_time is       *)
(* strictly greater than the cooldown (100 s); instances are launched in   *)
(* the loop by such an attempt only.                                       *)
C1_ScaleOutOnlyWhenLowAndCooled ==
    [][ /\ (pc' = "create_new_ws" /\ pc # "create_new_ws") =>
             /\ pc = "check"
             /\ current_rps < 50
             /\ now - last_launch_time > 100
        /\ (pc \in LoopPcs /\ launched' # launched) => pc = "create_new_ws"
      ]_vars

C1_Witness ==
    /\ pc = "create_new_ws"
    /\ current_rps = 10
    /\ now - last_launch_time = 101

(* C2: last_launch_time is changed by a scale-out attempt if and only if   *)
(* the attempt ends with the add-worker request returning status 200; no   *)
(* other outcome and no other step changes it after its initialization.    *)
C2_CooldownResetIffRegistered ==
    [][ /\ (last_launch_time' # last_launch_time) =>
             \/ pc = "set_timer"
             \/ pc = "register" /\ attempt_outcome' = "registered"
        /\ (pc = "register" /\ attempt_outcome' = "registered") =>
             /\ last_launch_time' = now
             /\ last_launch_time' # last_launch_time
      ]_vars

C2_Witness ==
    /\ attempt_outcome = "registered"
    /\ last_launch_time = now
    /\ last_launch_time > last_attempt_time

(* C3: in every iteration the completion check comes before the metric     *)
(* fetch and the threshold check, and once it has returned true the loop   *)
(* has ended: nothing but teardown follows, no attempt is initiated.       *)
C3_CompletionCheckedFirst ==
    [][ /\ pc' = "get_rps" => (pc = "is_test_complete" /\ ~complete')
        /\ pc' = "check" => pc = "get_rps"
        /\ complete' => pc' \in TeardownPcs
        /\ complete => (complete' /\ last_attempt_time' = last_attempt_time)
      ]_vars

C3_Witness ==
    /\ complete
    /\ pc = "done"
    /\ last_attempt_time # NoTime

(* number of terminate requests that name the instance id *)
TerminateCount(id) ==
    Cardinality({ c \in 1..Len(terminate_calls) : id \in Range(terminate_calls[c]) })

(* C4: on every exit path of the try block, normal or by an exception,     *)
(* the finally block has issued a terminate request that covers every id   *)
(* in all_instance_ids, and each tracked id is named by exactly one        *)
(* request.                                                                *)
C4_TeardownTerminatesTracked ==
    (pc \in { "finally_sg", "done" }) =>
        \A id \in Range(all_instance_ids) : TerminateCount(id) = 1

C4_Witness ==
    /\ pc = "finally_sg"
    /\ exc
    /\ Len(all_instance_ids) = 3
    /\ Len(terminate_calls) = 1

(* C5: when main exits, every EC2 instance that was launched has been      *)
(* terminated and the security group that was created has been deleted,    *)
(* on every exit path.                                                     *)
C5_EverythingReleased ==
    (pc = "done") =>
        /\ \A id \in 1..launched : id \in terminated
        /\ sg_cloud # "created"

(* C6, as claimed: two scale-out attempts are never initiated within the   *)
(* same 100-second window, whatever the outcome of the earlier one.        *)
C6_OneAttemptPerWindow ==
    [][ (pc = "check" /\ pc' = "create_new_ws" /\ last_attempt_time # NoTime) =>
            now - last_attempt_time >= 100
      ]_vars

(* C6, amended: an iteration whose rps sample is below the threshold and   *)
(* whose elapsed time exceeds the cooldown initiates an attempt, and after *)
(* an attempt that ended in a successful registration the next attempt is  *)
(* initiated more than 100 s after the earlier one; an attempt that did    *)
(* not end in a registration may be followed by another in the same window.*)
C6_OneAttemptPerWindowAfterSuccess ==
    [][ /\ (pc = "check" /\ pc' = "create_new_ws" /\ attempt_outcome = "registered") =>
              now - last_attempt_time > 100
        /\ (pc = "check" /\ current_rps < 50 /\ now - last_launch_time > 100) =>
              pc' = "create_new_ws"
      ]_vars

C6_Witness ==
    /\ pc = "create_new_ws"
    /\ add_requests # {}
    /\ last_launch_time > 100
    /\ now - last_launch_time > 100

(* C7: wait_for_server_health returns True only on a probe that returned   *)
(* status 200, never issues more than 40 probes, and returns False only    *)
(* after exactly 40 probes, all of which failed.                           *)
C7_HealthProbeBudget ==
    /\ probes <= 40
    /\ (health_ret = "True") => (last_probe = "200")
    /\ (health_ret = "False") =>
          (probes = 40 /\ last_probe \in { "non200", "transport_error" })

C7_Witness ==
    /\ health_ret = "False"
    /\ probes = 40
    /\ last_probe = "transport_error"

(* the value of the 'Current rps=' field that comes last in the text, 0    *)
(* when there is none                                                      *)
RECURSIVE LastReportedRps(_)
LastReportedRps(text) ==
    IF text = << >> THEN 0
    ELSE IF HasRpsField(text[Len(text)]) THEN FloatOfField(text[Len(text)])
    ELSE LastReportedRps(SubSeq(text, 1, Len(text) - 1))

(* C8: get_rps returns 0 when the report has no 'Current rps=' field and   *)
(* otherwise the value of the field that is last in text order, repeated   *)
(* values included.                                                        *)
C8_ReturnsLastReported ==
    (pc = "get_rps_return") => (current_rps = LastReportedRps(log_text))

(* C9: a worker is submitted to the add-worker endpoint only after it has  *)
(* a non-empty public DNS name and a health probe against it returned      *)
(* 200; a worker without an address is neither probed nor registered, and  *)
(* a worker whose probe budget ran out is not registered.                  *)
C9_RegisterOnlyHealthyAddressed ==
    [][ /\ (add_requests' # add_requests) =>
              /\ new_ws_dns # ""
              /\ new_ws \in probed_ok
              /\ add_requests' = add_requests \cup { new_ws }
        /\ (probes' > probes) => new_ws_dns # ""
        /\ (attempt_outcome' \in { "no_dns", "unhealthy" }) =>
              new_ws \notin add_requests'
        /\ (attempt_outcome' = "no_dns") => new_ws \notin probed_ok'
      ]_vars

C9_Witness ==
    /\ new_ws \in add_requests
    /\ new_ws \in probed_ok
    /\ new_ws_dns # ""

(* C10: an exception raised in a scale-out attempt is not fatal: it is     *)
(* caught, the loop goes on to its sleep and next iteration, no step of an *)
(* attempt leaves the loop, and the loop is left without an exception only *)
(* when the completion check has returned true.                            *)
C10_AttemptErrorsNotFatal ==
    [][ /\ (pc \in AttemptPcs) =>
              /\ pc' \in AttemptPcs \cup { "sleep", "is_test_complete" }
              /\ exc' = FALSE
        /\ (pc \in AttemptPcs /\ attempt_outcome' = "exception") => pc' = "sleep"
        /\ (pc \in LoopPcs /\ pc' = "finally" /\ ~exc') =>
              (pc = "is_test_complete" /\ complete')
      ]_vars

C10_Witness ==
    /\ pc = "get_rps"
    /\ attempt_outcome = "exception"
    /\ ~exc

NonSuccess == { "exception", "no_dns", "unhealthy", "rejected" }

(* C11: every iteration of the loop, whatever its branch, runs the         *)
(* 1-second sleep of line 351 before the next completion check.            *)
C11_SleepEveryIteration ==
    [][ (pc \in LoopPcs /\ pc' = "is_test_complete") =>
            (pc = "sleep" /\ now' >= now + 1)
      ]_vars

(* C12: initialize_test ends only by returning the log identifier of a     *)
(* status-200 response: it never raises and never gives up.                *)
C12_InitializeTestNeverRaises ==
    [][ (pc = "initialize_test") =>
            /\ pc' \in { "initialize_test", "set_timer" }
            /\ exc' = FALSE
      ]_vars

(* C13: at most one scale-out attempt is in flight: an attempt is          *)
(* initiated only from the threshold check and only when the previous one  *)
(* has reached a terminal outcome, and no completion check, metric fetch or *)
(* threshold check runs while an attempt is in flight.                     *)
C13_OneAttemptInFlight ==
    [][ /\ (pc' = "create_new_ws") =>
              (pc = "check" /\ attempt_outcome # "in_flight")
        /\ (attempt_outcome' = "in_flight") <=> (pc' \in AttemptPcs)
      ]_vars

C13_Witness ==
    /\ pc = "create_new_ws"
    /\ attempt_outcome = "in_flight"
    /\ new_ws # 0

(* C15: after an attempt with a non-success outcome no new cooldown is     *)
(* waited: the next iteration in which the test is not complete and the    *)
(* rps sample is below the threshold initiates an attempt, the elapsed     *)
(* time still being measured from the unchanged last_launch_time.          *)
C15_RetryWithoutNewCooldown ==
    [][ /\ (pc = "check" /\ attempt_outcome \in NonSuccess /\ current_rps < 50) =>
              (pc' = "create_new_ws" /\ time_diff = now - last_launch_time)
        /\ (pc \in AttemptPcs /\ attempt_outcome' \in NonSuccess) =>
              last_launch_time' = last_launch_time
      ]_vars

C15_Witness ==
    /\ pc = "create_new_ws"
    /\ new_ws # 0
    /\ new_ws \in add_requests
    /\ last_launch_time = session_start

(* C16: the cooldown timer is set to the current time once initialize_test *)
(* has returned and before the first iteration, so no attempt is initiated *)
(* during the first 100 seconds of the test session.                       *)
C16_NoAttemptInFirstCooldown ==
    [][ /\ (pc' = "set_timer") => (pc = "initialize_test" /\ session_start' = now')
        /\ (pc = "set_timer") =>
              (pc' = "is_test_complete" /\ last_launch_time' = session_start)
        /\ (pc' = "create_new_ws") =>
              (session_start # NoTime /\ now - session_start > 100)
      ]_vars

C16_Witness ==
    /\ pc = "create_new_ws"
    /\ session_start = 1
    /\ now = 102

IsPrefix(s, t) == Len(s) <= Len(t) /\ SubSeq(t, 1, Len(s)) = s

(* C17: every instance returned to main by create_instance is in           *)
(* all_instance_ids from then on, whatever the outcome of its attempt; the *)
(* list only grows, and no instance is terminated before the finally block.*)
C17_TrackedUntilTeardown ==
    [][ /\ IsPrefix(all_instance_ids, all_instance_ids')
        /\ (pc \in { "create_lg", "create_ws", "create_new_ws" }
              /\ pc' \in { "create_ws", "initialize_test", "reload" }) =>
              all_instance_ids' = Append(all_instance_ids, launched')
        /\ (new_ws' # 0) => (new_ws' \in Range(all_instance_ids'))
        /\ (terminated' # terminated) => (pc = "finally")
      ]_vars

C17_Witness ==
    /\ pc = "finally"
    /\ attempt_outcome = "unhealthy"
    /\ new_ws \in Range(all_instance_ids)
    /\ terminated = {}

(* C18: wait_for_server_health returns True exactly when one of its first  *)
(* 40 probes returns status 200 and stops there: no probe and no sleep     *)
(* follows; a non-200 status counts against the budget like a transport    *)
(* error, and each failed probe is followed by one 2-second sleep.         *)
C18_HealthProbeOutcome ==
    [][ /\ (probes' = probes + 1) =>
              /\ pc = "health" /\ retries < 40
              /\ (last_probe' = "200") =>
                    /\ health_ret' = "True"
                    /\ pc' = "health_return"
                    /\ now' = now /\ retries' = retries
              /\ (last_probe' \in { "non200", "transport_error" }) =>
                    /\ health_ret' = "none"
                    /\ pc' = "health"
                    /\ retries' = retries + 1
                    /\ now' = now + 2
        /\ (health_ret' = "True") => (last_probe' = "200")
        /\ (health_ret' = "False") => (retries' = 40 /\ probes' = 40)
        /\ (health_ret # "none") => (probes' = probes \/ probes' = 0)
      ]_vars

C18_Witness ==
    /\ pc = "health_return"
    /\ health_ret = "True"
    /\ retries = 39
    /\ probes = 40

(* C19: an error of the completion fetch or of the metric fetch is not     *)
(* retried and not swallowed: the loop is left at once for the finally     *)
(* block, no iteration or attempt follows, the terminate request is        *)
(* issued, and the exception is still propagating when main ends.          *)
C19_PollingErrorsEndRunVisibly ==
    [][ /\ (pc \in { "is_test_complete", "get_rps" } /\ pc' = "finally") =>
              (exc' \/ (pc = "is_test_complete" /\ complete'))
        /\ exc => (exc' /\ pc' \in TeardownPcs)
        /\ (exc' /\ ~complete' /\ pc' = "done" /\ all_instance_ids # << >>) =>
              Len(terminate_calls') = 1
      ]_vars

C19_Witness ==
    /\ pc = "done"
    /\ exc
    /\ ~complete
    /\ last_launch_time # NoTime
    /\ sg_cloud = "deleted"
    /\ terminated = Range(all_instance_ids)

(* C14: destroy_resources is called exactly once on every exit path of    *)
(* main: once after both tests have completed, once when a step raised.    *)
C14_DestroyExactlyOnce ==
    /\ destroy_calls <= 1
    /\ (as_pc \in { "destroying", "done" }) => (destroy_calls = 1)
    /\ (as_pc \notin { "destroying", "done" }) => (destroy_calls = 0)

C14_Witness ==
    /\ as_pc = "done"
    /\ as_error
    /\ destroy_calls = 1
    /\ Len(as_created) = Cardinality(Resources)
    /\ Len(as_attempted) = Len(DestroySteps)

(* position of a resource in the order of creation *)
CreatedAt(r) == CHOOSE i \in 1..Len(as_created) : as_created[i] = r

(* C20: destroy_resources deletes the resources in the reverse of the      *)
(* order in which main created them.                                       *)
C20_DeletesInReverseOrder ==
    \A i, j \in 1..Len(as_deleted) :
        (i < j) => (CreatedAt(as_deleted[i]) > CreatedAt(as_deleted[j]))

(* C21: once destroy_resources has run with every call succeeding, every   *)
(* resource that main created has been deleted: both security groups, the  *)
(* load generator, the launch template, the target group, the load         *)
(* balancer, the auto scaling group and the alarms.                        *)
C21_EverythingDeleted ==
    (as_pc = "done" /\ as_deleted = DestroySteps) => (as_exists = {})

(* C22: in destroy_resources a failed step does not keep a later step from *)
(* being attempted: all six steps are attempted in every run, in the fixed *)
(* order, and no exception of a step leaves destroy_resources.             *)
C22_TeardownStepsIndependent ==
    /\ IsPrefix(as_attempted, DestroySteps)
    /\ (as_pc = "destroying") => (Len(as_attempted) = as_dstep - 1)
    /\ (as_pc = "done") => (as_attempted = DestroySteps /\ destroy_calls = 1)

C22_Witness ==
    /\ as_pc = "done"
    /\ as_attempted = DestroySteps
    /\ as_deleted = << "alarms" >>
    /\ { "asg", "lt", "lb", "tg", "lg" } \subseteq as_exists

(* the milestones of a run of main in the order of lines 408-430 *)
Milestones ==
    << "warmup_started", "warmup_complete", "capacity_reset", "test_started",
       "test_complete" >>

(* C23: the main test is started only after the warm-up test has been      *)
(* observed complete and, after that, the desired capacity has been reset  *)
(* to 1; on the normal path destroy_resources runs only after the main     *)
(* test has been observed complete.                                        *)
C23_PhasesInOrder ==
    /\ IsPrefix(as_events, Milestones)
    /\ (as_pc = "start_test") => (Len(as_events) = 3)
    /\ (as_pc = "test_poll") => (Len(as_events) = 4)
    /\ (destroy_calls > 0 /\ ~as_error) => (as_events = Milestones)

C23_Witness ==
    /\ as_pc = "done"
    /\ ~as_error
    /\ destroy_calls = 1
    /\ as_events = Milestones

PollPcs == { "warmup_poll", "test_poll" }

(* C24: is_test_complete takes a failed log fetch as not complete: it      *)
(* returns True only when the text fetched by that call contains           *)
(* '[Test finished]', does not raise on a fetch error and does not report  *)
(* completion from an earlier saved log, so a polling loop is not left     *)
(* while the fetch keeps failing.                                          *)
C24_FailedFetchIsNotComplete ==
    [][ (as_pc \in PollPcs) =>
            /\ (as_fetch' = "raise") =>
                  /\ as_pc' = as_pc
                  /\ as_error' = as_error
                  /\ as_events' = as_events
                  /\ ~TestFinished(as_log')
            /\ (as_pc' # as_pc /\ ~as_error') =>
                  (as_fetch' = "ok" /\ TestFinished(as_log'))
      ]_vars

C24_Witness ==
    /\ as_pc = "test_poll"
    /\ as_fetch = "raise"
    /\ as_log = << >>
    /\ Len(as_events) = 4

====
